---- MODULE Spec2Model ----
(***************************************************************************)
(* Model of the two console programs of the repository:                    *)
(*   task_manager.py  - flat-file task tracker with login and reports      *)
(*   shelf_track.py   - bookstore inventory over two SQLite tables         *)
(*                                                                         *)
(* Text is a sequence of tokens.  The tokens "," and " " and "LF" (the     *)
(* newline) are the characters the programs' parsing looks at; every other *)
(* token is a word that contains none of them.  A file is the sequence of  *)
(* tokens written to it.                                                   *)
(***************************************************************************)
EXTENDS Integers, Sequences, FiniteSets, TLC

VARIABLES
    pc,            \* task tracker: "login" | "menu" | "exit" | "crashed"
    username,      \* global `username` (last value read at the login prompt)
    username_password, \* global dict loaded from user.txt, extended by reg_user
    userFile,      \* contents of user.txt
    tasksFile,     \* contents of tasks.txt
    taskOverview,  \* figures written to task_overview.txt
    userOverview,  \* figures written to user_overview.txt
    last,          \* the last task-tracker step: what was read and what it did
    shelfPc,       \* bookstore: "menu" | "exit" | "crashed"
    book,          \* table book:   id -> [title, authorID, qty]
    author,        \* table author: id -> [name, country]
    shelfLast      \* the last bookstore step: what was read and what it printed

taskVars  == <<pc, username, username_password, userFile, tasksFile,
               taskOverview, userOverview, last>>
shelfVars == <<shelfPc, book, author, shelfLast>>
vars      == <<pc, username, username_password, userFile, tasksFile,
               taskOverview, userOverview, last, shelfPc, book, author, shelfLast>>

(***************************************************************************)
(* Bounds of the model.                                                    *)
(***************************************************************************)
\* add_task is taken only while tasks.txt holds fewer task lines than this
MaxTasks == 2

(***************************************************************************)
(* str methods used by the programs                                        *)
(***************************************************************************)
Min(S) == CHOOSE x \in S : \A y \in S : x <= y

Sep == <<",", " ">>
LF  == "LF"

IsSpace(c) == c \in {" ", LF}

RECURSIVE LStrip(_)
LStrip(s) == IF s # <<>> /\ IsSpace(Head(s)) THEN LStrip(Tail(s)) ELSE s

RECURSIVE RStrip(_)
RStrip(s) ==
    IF s # <<>> /\ IsSpace(s[Len(s)]) THEN RStrip(SubSeq(s, 1, Len(s) - 1)) ELSE s

\* str.strip()
strip(s) == RStrip(LStrip(s))

\* str.split(", "): cut at every occurrence of the separator, left to right
RECURSIVE split(_)
split(s) ==
    LET hits == {i \in 1..(Len(s) - 1) : s[i] = "," /\ s[i + 1] = " "}
    IN  IF hits = {} THEN <<s>>
        ELSE LET i == Min(hits)
             IN  <<SubSeq(s, 1, i - 1)>> \o split(SubSeq(s, i + 2, Len(s)))

\* ", ".join(fields)
RECURSIVE join(_)
join(f) ==
    IF f = <<>> THEN <<>>
    ELSE IF Len(f) = 1 THEN f[1]
    ELSE f[1] \o Sep \o join(Tail(f))

\* iterating a text file: the lines, each with its terminating newline
RECURSIVE readlines(_)
readlines(f) ==
    IF f = <<>> THEN <<>>
    ELSE LET nl == {i \in 1..Len(f) : f[i] = LF}
         IN  IF nl = {} THEN <<f>>
             ELSE LET i == Min(nl)
                  IN  <<SubSeq(f, 1, i)>> \o readlines(SubSeq(f, i + 1, Len(f)))

NonBlank(l) == strip(l) # <<>>

\* str.lower() on the one-word answers the menus read
lower(w) ==
    CASE w = "GR" -> "gr"
      [] w = "E"  -> "e"
      [] w = "C"  -> "c"
      [] OTHER    -> w

(***************************************************************************)
(* datetime                                                                 *)
(***************************************************************************)
\* The date words of the model with the numbers written in them.
DateWords ==
    { [w |-> "2020-01-01", y |-> 2020, m |-> 1,  d |-> 1],
      [w |-> "2026-11-05", y |-> 2026, m |-> 11, d |-> 5],
      [w |-> "2027-03-01", y |-> 2027, m |-> 3,  d |-> 1],
      [w |-> "2023-02-30", y |-> 2023, m |-> 2,  d |-> 30] }

IsLeap(y) == (y % 4 = 0 /\ y % 100 # 0) \/ y % 400 = 0

DaysInMonth(y, m) ==
    IF m = 2 THEN (IF IsLeap(y) THEN 29 ELSE 28)
    ELSE IF m \in {4, 6, 9, 11} THEN 30 ELSE 31

\* datetime.strptime(s, "%Y-%m-%d"): a datetime at 00:00:00, or ValueError
strptime(s) ==
    LET m == {r \in DateWords : s = <<r.w>>}
    IN  IF m = {} THEN [ok |-> FALSE, y |-> 0, m |-> 0, d |-> 0, tod |-> 0]
        ELSE LET r == CHOOSE r \in m : TRUE
             IN  IF r.m \in 1..12 /\ r.d \in 1..DaysInMonth(r.y, r.m)
                 THEN [ok |-> TRUE, y |-> r.y, m |-> r.m, d |-> r.d, tod |-> 0]
                 ELSE [ok |-> FALSE, y |-> 0, m |-> 0, d |-> 0, tod |-> 0]

\* The calendar day of the session (the session does not run past midnight).
Today == [y |-> 2026, m |-> 11, d |-> 5]

\* Readings of the time of day: 0 is 00:00:00.000000 exactly, 1 any later instant.
Clock == {0, 1}

\* datetime.today()
today(tod) == [ok |-> TRUE, y |-> Today.y, m |-> Today.m, d |-> Today.d, tod |-> tod]

\* datetime.strftime("%Y-%m-%d")
strftime(t) ==
    <<(CHOOSE r \in DateWords : r.y = t.y /\ r.m = t.m /\ r.d = t.d).w>>

\* datetime.__lt__
Before(a, b) ==
    \/ a.y < b.y
    \/ a.y = b.y /\ a.m < b.m
    \/ a.y = b.y /\ a.m = b.m /\ a.d < b.d
    \/ a.y = b.y /\ a.m = b.m /\ a.d = b.d /\ a.tod < b.tod

(***************************************************************************)
(* task_manager.py: the files and their loaders                            *)
(***************************************************************************)
W(w) == <<w>>
Admin == W("admin")
Yes   == W("Yes")
No    == W("No")

\* user.txt as written on the first run
DefaultUserFile == Admin \o Sep \o Admin \o <<LF>>

\* the task loader, written out three times in the source: every non-blank
\* line, stripped and cut at ", "
LoadTasks(file) ==
    LET kept == SelectSeq(readlines(file), NonBlank)
    IN  [i \in 1..Len(kept) |-> split(strip(kept[i]))]

\* the user loader: lines that do not cut into exactly two parts are skipped,
\* a later line for the same name replaces an earlier one
LoadUsers(file) ==
    LET kept  == SelectSeq(readlines(file), NonBlank)
        parts == [i \in 1..Len(kept) |-> split(strip(kept[i]))]
        good  == {i \in 1..Len(kept) : Len(parts[i]) = 2}
        final(k) == CHOOSE i \in good :
                        /\ parts[i][1] = k
                        /\ \A j \in good : parts[j][1] = k => j <= i
    IN  [k \in {parts[i][1] : i \in good} |-> parts[final(k)][2]]

\* one task line: f"{owner}, {title}, {description}, {due}, {assigned}, {flag}\n"
FormatTask(t) == join(t) \o <<LF>>

\* writelines([", ".join(t) + "\n" for t in tasks])
RECURSIVE WriteTasks(_)
WriteTasks(tasks) ==
    IF tasks = <<>> THEN <<>>
    ELSE FormatTask(Head(tasks)) \o WriteTasks(Tail(tasks))

\* What a step read and did: the menu choice, the outcome printed, the index of
\* the task selected (0: none), the sub-action chosen, two answers, and a
\* record: the task add_task built, or the task number typed in view_mine.
Step(op, out, idx, act, a, b, rec) ==
    [op |-> op, out |-> out, idx |-> idx, act |-> act, a |-> a, b |-> b, rec |-> rec]

NoReport == [written |-> FALSE, total |-> 0, completed |-> 0,
             incomplete |-> 0, overdue |-> 0]
NoUserReport == [written |-> FALSE, total_users |-> 0, total_tasks |-> 0,
                 per |-> <<>>]

TaskInit ==
    /\ pc = "login"
    /\ username = <<>>
    /\ userFile \in { DefaultUserFile,
                      DefaultUserFile \o <<LF>> \o W("bob") \o Sep \o W("pw1") }
    /\ username_password = LoadUsers(userFile)
    /\ tasksFile = <<>>
    /\ taskOverview = NoReport
    /\ userOverview = NoUserReport
    /\ last = Step("start", "", 0, "", <<>>, <<>>, <<>>)

(***************************************************************************)
(* task_manager.py: login and menu dispatch                                *)
(***************************************************************************)
CredentialsMatch(u, p) ==
    u \in DOMAIN username_password /\ username_password[u] = p

\* One pass of the login loop: both prompts are read, `username` is assigned.
Login(u, p) ==
    /\ pc = "login"
    /\ username' = u
    /\ pc' = IF CredentialsMatch(u, p) THEN "menu" ELSE "login"
    /\ last' = Step("login", IF CredentialsMatch(u, p) THEN "ok" ELSE "invalid",
                    0, "", u, p, <<>>)
    /\ UNCHANGED <<username_password, userFile, tasksFile, taskOverview,
                   userOverview, shelfVars>>

\* the chain without the `and username == "admin"` of the "gr" branch
DispatchReportsForAll(menu, user) ==
    IF menu = "r" /\ user = Admin THEN "reg_user"
    ELSE IF menu = "a" THEN "add_task"
    ELSE IF menu = "va" THEN "view_all"
    ELSE IF menu = "vm" THEN "view_mine"
    ELSE IF menu = "gr" THEN "generate_reports"
    ELSE IF menu = "ds" /\ user = Admin THEN "display_statistics"
    ELSE IF menu = "e" THEN "exit"
    ELSE "invalid"

\* The if/elif chain of the menu loop: the function the (lowered) choice runs.
Dispatch(menu, user) ==
    IF menu = "r" /\ user = Admin THEN "reg_user"
    ELSE IF menu = "a" THEN "add_task"
    ELSE IF menu = "va" THEN "view_all"
    ELSE IF menu = "vm" THEN "view_mine"
    ELSE IF menu = "gr" /\ user = Admin THEN "generate_reports"
    ELSE IF menu = "ds" /\ user = Admin THEN "display_statistics"
    ELSE IF menu = "e" THEN "exit"
    ELSE "invalid"

Exit(m) ==
    /\ pc = "menu"
    /\ Dispatch(lower(m), username) = "exit"
    /\ pc' = "exit"
    /\ last' = Step(lower(m), "goodbye", 0, "", <<>>, <<>>, <<>>)
    /\ UNCHANGED <<username, username_password, userFile, tasksFile,
                   taskOverview, userOverview, shelfVars>>

InvalidChoice(m) ==
    /\ pc = "menu"
    /\ Dispatch(lower(m), username) = "invalid"
    /\ last' = Step(lower(m), "invalid", 0, "", <<>>, <<>>, <<>>)
    /\ UNCHANGED <<pc, username, username_password, userFile, tasksFile,
                   taskOverview, userOverview, shelfVars>>

(***************************************************************************)
(* task_manager.py: the menu's functions                                   *)
(***************************************************************************)
\* reg_user, reached from menu choice "r"
RegUser(m, new_user, new_password, confirm_password) ==
    /\ pc = "menu"
    /\ Dispatch(lower(m), username) = "reg_user"
    /\ IF username # Admin
       THEN /\ last' = Step(lower(m), "not admin", 0, "", <<>>, <<>>, <<>>)
            /\ UNCHANGED <<username_password, userFile>>
       ELSE IF new_user \in DOMAIN username_password
       THEN /\ last' = Step(lower(m), "exists", 0, "", new_user, <<>>, <<>>)
            /\ UNCHANGED <<username_password, userFile>>
       ELSE IF new_password = confirm_password
       THEN /\ username_password' =
                  [k \in DOMAIN username_password \cup {new_user} |->
                      IF k = new_user THEN new_password ELSE username_password[k]]
            /\ userFile' = userFile \o <<LF>> \o new_user \o Sep \o new_password
            /\ last' = Step(lower(m), "registered", 0, "", new_user, new_password, <<>>)
       ELSE /\ last' = Step(lower(m), "mismatch", 0, "", new_user, <<>>, <<>>)
            /\ UNCHANGED <<username_password, userFile>>
    /\ UNCHANGED <<pc, username, tasksFile, taskOverview, userOverview, shelfVars>>

\* open("tasks.txt", "w") in place of "a": the entry replaces the file
OverwriteWith(file, entry) == entry

\* open("tasks.txt", "a").write(task_entry)
AppendTo(file, entry) == file \o entry

\* add_task, reached from menu choice "a"; tod is the clock reading
AddTask(m, assigned_user, task_title, task_description, due_date, tod) ==
    /\ pc = "menu"
    /\ Dispatch(lower(m), username) = "add_task"
    /\ Len(LoadTasks(tasksFile)) < MaxTasks
    /\ IF assigned_user \notin DOMAIN username_password
       THEN /\ last' = Step(lower(m), "no such user", 0, "", assigned_user, <<>>, <<>>)
            /\ UNCHANGED tasksFile
       ELSE LET assigned_date == strftime(today(tod))
                task == <<assigned_user, task_title, task_description,
                          due_date, assigned_date, No>>
            IN  /\ tasksFile' = AppendTo(tasksFile, FormatTask(task))
                /\ last' = Step(lower(m), "added", 0, "", assigned_user, <<>>, task)
    /\ UNCHANGED <<pc, username, username_password, userFile, taskOverview,
                   userOverview, shelfVars>>

\* task[1] .. task[5] are read: IndexError on a line with fewer than six fields
Short(t) == Len(t) < 6

\* view_all, reached from menu choice "va"
ViewAll(m) ==
    /\ pc = "menu"
    /\ Dispatch(lower(m), username) = "view_all"
    /\ LET tasks == LoadTasks(tasksFile)
       IN  IF \E i \in 1..Len(tasks) : Short(tasks[i])
           THEN /\ pc' = "crashed"
                /\ last' = Step(lower(m), "IndexError", 0, "", <<>>, <<>>, <<>>)
           ELSE /\ pc' = pc
                /\ last' = Step(lower(m), IF tasks = <<>> THEN "none" ELSE "shown",
                                0, "", <<>>, <<>>, <<>>)
    /\ UNCHANGED <<username, username_password, userFile, tasksFile,
                   taskOverview, userOverview, shelfVars>>

\* user_task_indices: the positions of the user's tasks, in file order
RECURSIVE IndicesFrom(_, _, _)
IndicesFrom(tasks, user, i) ==
    IF i > Len(tasks) THEN <<>>
    ELSE (IF tasks[i][1] = user THEN <<i>> ELSE <<>>)
         \o IndicesFrom(tasks, user, i + 1)

\* a selection list that holds every task, whoever owns it
AllTaskIndices(tasks, user) == [i \in 1..Len(tasks) |-> i]

user_task_indices(tasks, user) == IndicesFrom(tasks, user, 1)

\* a guard that lets a completed task through to the edit
AlreadyCompleteNever(t) == FALSE

\* the guard of the edit branch: a completed task is not edited
AlreadyComplete(t) == t[6] = Yes

\* a validation that accepts every name as the new owner
KnownUserAny(u) == TRUE

\* the validation of the new owner in the edit branch
KnownUser(u) == u \in DOMAIN username_password

\* The answers at the "task number" prompt: int() fails on the first.
Selections ==
    {[isInt |-> FALSE, val |-> 0]}
        \cup {[isInt |-> TRUE, val |-> v] : v \in (-1)..(MaxTasks + 1)}

\* What view_mine does with the answers it reads: the outcome it prints, the
\* task list it holds at the end, and whether it writes that list back.
ViewMineRun(tasks, choice, action, new_user, new_due) ==
    LET mine == user_task_indices(tasks, username)
        R(out, idx, act, a, b, ts, write) ==
            [out |-> out, idx |-> idx, act |-> act, a |-> a, b |-> b,
             tasks |-> ts, write |-> write]
    IN  IF mine = <<>> THEN R("no tasks", 0, "", <<>>, <<>>, tasks, FALSE)
        ELSE IF \E k \in 1..Len(mine) : Short(tasks[mine[k]])
        THEN R("IndexError", 0, "", <<>>, <<>>, tasks, FALSE)
        ELSE IF ~choice.isInt THEN R("invalid input", 0, "", <<>>, <<>>, tasks, FALSE)
        ELSE IF choice.val = -1 THEN R("return", 0, "", <<>>, <<>>, tasks, FALSE)
        ELSE IF choice.val < 1 \/ choice.val > Len(mine)
        THEN R("invalid number", 0, "", <<>>, <<>>, tasks, FALSE)
        ELSE
          LET real_index == mine[choice.val]
              selected_task == tasks[real_index]
          IN  IF action = "c"
              THEN R("updated", real_index, action, <<>>, <<>>,
                     [tasks EXCEPT ![real_index][6] = Yes], TRUE)
              ELSE IF action = "e"
              THEN IF AlreadyComplete(selected_task)
                   THEN R("already complete", real_index, action, <<>>, <<>>,
                          tasks, FALSE)
                   ELSE IF ~KnownUser(new_user)
                   THEN R("invalid username", real_index, action, new_user, <<>>,
                          tasks, FALSE)
                   ELSE IF ~strptime(new_due).ok
                   THEN R("invalid date", real_index, action, new_user, new_due,
                          tasks, FALSE)
                   ELSE R("updated", real_index, action, new_user, new_due,
                          [tasks EXCEPT ![real_index][1] = new_user,
                                        ![real_index][4] = new_due], TRUE)
              ELSE R("invalid action", real_index, action, <<>>, <<>>, tasks, FALSE)

\* view_mine, reached from menu choice "vm"
ViewMine(m, choice, action, new_user, new_due) ==
    /\ pc = "menu"
    /\ Dispatch(lower(m), username) = "view_mine"
    /\ LET r == ViewMineRun(LoadTasks(tasksFile), choice, lower(action),
                            new_user, new_due)
       IN  /\ pc' = IF r.out = "IndexError" THEN "crashed" ELSE pc
           /\ tasksFile' = IF r.write THEN WriteTasks(r.tasks) ELSE tasksFile
           /\ last' = Step(lower(m), r.out, r.idx, r.act, r.a, r.b,
                           IF r.idx > 0 THEN <<choice.val>> ELSE <<>>)
    /\ UNCHANGED <<username, username_password, userFile, taskOverview,
                   userOverview, shelfVars>>

\* the overdue test without its `t[5] == "No"` half
IsOverdueAnyFlag(t, now) == Before(strptime(t[4]), now)

\* the condition under which generate_reports counts a task as overdue
IsOverdue(t, now) == t[6] = No /\ Before(strptime(t[4]), now)

\* t[5] == "Yes"
IsCompleted(t) == t[6] = Yes

\* The four figures generate_reports computes over a task list.
Figures(tasks, now) ==
    LET total     == Len(tasks)
        completed == Cardinality({i \in 1..Len(tasks) : IsCompleted(tasks[i])})
        overdue   == Cardinality({i \in 1..Len(tasks) : IsOverdue(tasks[i], now)})
    IN  [total |-> total, completed |-> completed,
         incomplete |-> total - completed, overdue |-> overdue]

\* The exceptions generate_reports lets escape: t[5] on a short line, and
\* strptime on the due date of a task whose flag is "No".
ReportError(tasks) ==
    IF \E i \in 1..Len(tasks) : Short(tasks[i]) THEN "IndexError"
    ELSE IF \E i \in 1..Len(tasks) : tasks[i][6] = No /\ ~strptime(tasks[i][4]).ok
    THEN "ValueError"
    ELSE "none"

\* task_overview.txt
TaskOverviewOf(tasks, now) ==
    LET f == Figures(tasks, now)
    IN  [written |-> TRUE, total |-> f.total, completed |-> f.completed,
         incomplete |-> f.incomplete, overdue |-> f.overdue]

\* user_overview.txt: one block per user of the mapping; the Completed,
\* Incomplete and Overdue lines are written only for a user who has tasks
UserOverviewOf(tasks, now) ==
    [written |-> TRUE,
     total_users |-> Cardinality(DOMAIN username_password),
     total_tasks |-> Len(tasks),
     per |-> [user \in DOMAIN username_password |->
                 LET user_tasks == SelectSeq(tasks, LAMBDA t : t[1] = user)
                     f == Figures(user_tasks, now)
                 IN  [total |-> f.total, detail |-> f.total > 0,
                      completed |-> f.completed, incomplete |-> f.incomplete,
                      overdue |-> f.overdue]]]

\* The body of generate_reports.  One clock reading, tod, stands for the
\* readings of datetime.today() the run makes.
GenerateReportsBody(op, tod) ==
    LET tasks == LoadTasks(tasksFile)
        err   == ReportError(tasks)
    IN  IF err # "none"
        THEN /\ pc' = "crashed"
             /\ last' = Step(op, err, 0, "", <<>>, <<>>, <<>>)
             /\ UNCHANGED <<taskOverview, userOverview>>
        ELSE /\ pc' = pc
             /\ taskOverview' = TaskOverviewOf(tasks, today(tod))
             /\ userOverview' = UserOverviewOf(tasks, today(tod))
             /\ last' = Step(op, "written", 0, "", <<>>, <<>>, <<>>)

\* generate_reports, reached from menu choice "gr"
GenerateReports(m, tod) ==
    /\ pc = "menu"
    /\ Dispatch(lower(m), username) = "generate_reports"
    /\ GenerateReportsBody(lower(m), tod)
    /\ UNCHANGED <<username, username_password, userFile, tasksFile, shelfVars>>

\* display_statistics, reached from menu choice "ds"
DisplayStatistics(m, tod) ==
    /\ pc = "menu"
    /\ Dispatch(lower(m), username) = "display_statistics"
    /\ IF username # Admin
       THEN /\ last' = Step(lower(m), "not admin", 0, "", <<>>, <<>>, <<>>)
            /\ UNCHANGED <<pc, taskOverview, userOverview>>
       ELSE GenerateReportsBody(lower(m), tod)
    /\ UNCHANGED <<username, username_password, userFile, tasksFile, shelfVars>>

(***************************************************************************)
(* The answers typed at the task tracker's prompts.  A prompt that a run   *)
(* does not reach reads nothing: its answer is drawn as the empty text.    *)
(***************************************************************************)
LoginStep(I) == \E u \in I.logins, p \in I.passwords : Login(u, p)
ExitStep(I) == \E m \in I.menus : Exit(m)
InvalidChoiceStep(I) == \E m \in I.menus : InvalidChoice(m)
RegUserStep(I) ==
    \E m \in I.menus, n \in I.newNames, p, c \in I.passwords : RegUser(m, n, p, c)
AddTaskStep(I) ==
    \E m \in I.menus, u \in I.assignees, t \in I.titles, due \in I.dues,
       tod \in I.clock : AddTask(m, u, t, W("d"), due, tod)
ViewAllStep(I) == \E m \in I.menus : ViewAll(m)
ViewMineStep(I) ==
    \E m \in I.menus, k \in Selections, a \in I.actions :
        \E u \in (IF lower(a) = "e" THEN I.owners ELSE {<<>>}),
           due \in (IF lower(a) = "e" THEN I.newDues ELSE {<<>>}) :
              ViewMine(m, k, a, u, due)
GenerateReportsStep(I) == \E m \in I.menus, tod \in I.clock : GenerateReports(m, tod)
DisplayStatisticsStep(I) ==
    \E m \in I.menus, tod \in I.clock : DisplayStatistics(m, tod)

Bob == W("bob")
Eve == W("eve")

\* The session: every menu answer, both kinds of user, a due date that is no
\* date; tasks are completed but not edited.
SessionAnswers ==
    [ logins |-> {Admin, Bob, Eve},
      passwords |-> {Admin, W("pw1")},
      menus |-> {"r", "a", "va", "vm", "gr", "GR", "ds", "e", "zz"},
      newNames |-> {W("carol")},
      assignees |-> {Admin, Bob, Eve},
      titles |-> {W("t")},
      dues |-> {W("soon")},
      owners |-> {},
      newDues |-> {},
      actions |-> {"c", "x"},
      clock |-> {1} ]

Next ==
    \/ LoginStep(SessionAnswers)
    \/ ExitStep(SessionAnswers)
    \/ InvalidChoiceStep(SessionAnswers)
    \/ RegUserStep(SessionAnswers)
    \/ AddTaskStep(SessionAnswers)
    \/ ViewAllStep(SessionAnswers)
    \/ ViewMineStep(SessionAnswers)
    \/ GenerateReportsStep(SessionAnswers)
    \/ DisplayStatisticsStep(SessionAnswers)

\* A standard user's session on the task menu: adding, viewing, completing and
\* editing tasks, with titles that hold the separator and dates that are none.
EditAnswers ==
    [ logins |-> {Bob, Eve},
      passwords |-> {W("pw1"), W("zz")},
      menus |-> {"a", "va", "vm", "e", "zz"},
      newNames |-> {},
      assignees |-> {Admin, Bob, Eve},
      titles |-> {W("t"), <<"t", ",", " ", "u">>},
      dues |-> {W("2020-01-01")},
      owners |-> {Admin, Eve},
      newDues |-> {W("2027-03-01"), W("2023-02-30")},
      actions |-> {"c", "E", "x"},
      clock |-> {1} ]

EditNext ==
    \/ LoginStep(EditAnswers)
    \/ ExitStep(EditAnswers)
    \/ InvalidChoiceStep(EditAnswers)
    \/ AddTaskStep(EditAnswers)
    \/ ViewAllStep(EditAnswers)
    \/ ViewMineStep(EditAnswers)

\* The administrator's session around the reports: tasks due in the past,
\* today and later, completed or not, reports run at midnight and after.
ReportAnswers ==
    [ logins |-> {Admin},
      passwords |-> {Admin, W("zz")},
      menus |-> {"a", "vm", "gr", "ds", "e"},
      newNames |-> {},
      assignees |-> {Admin, Bob},
      titles |-> {W("t")},
      dues |-> {W("2020-01-01"), W("2026-11-05"), W("2027-03-01")},
      owners |-> {},
      newDues |-> {},
      actions |-> {"c"},
      clock |-> {0, 1} ]

ReportNext ==
    \/ LoginStep(ReportAnswers)
    \/ ExitStep(ReportAnswers)
    \/ AddTaskStep(ReportAnswers)
    \/ ViewMineStep(ReportAnswers)
    \/ GenerateReportsStep(ReportAnswers)
    \/ DisplayStatisticsStep(ReportAnswers)

(***************************************************************************)
(* shelf_track.py: input validation and the statements sent to SQLite      *)
(***************************************************************************)
Digits == {"0", "1", "2", "3", "4", "5", "6", "7", "8", "9"}

DigitVal(c) ==
    CASE c = "0" -> 0 [] c = "1" -> 1 [] c = "2" -> 2 [] c = "3" -> 3
      [] c = "4" -> 4 [] c = "5" -> 5 [] c = "6" -> 6 [] c = "7" -> 7
      [] c = "8" -> 8 [] c = "9" -> 9

\* str.isdigit(): non-empty and every character a digit
isdigit(s) == s # <<>> /\ \A i \in 1..Len(s) : s[i] \in Digits

\* int() of a digit string
RECURSIVE IntOf(_)
IntOf(s) == IF s = <<>> THEN 0 ELSE 10 * IntOf(SubSeq(s, 1, Len(s) - 1)) + DigitVal(s[Len(s)])

\* get_valid_integer re-prompts until the stripped answer is `length` digits;
\* Accepted is the test an answer must pass to be returned (as IntOf of it)
Accepted(answer, length) ==
    isdigit(strip(answer)) /\ Len(strip(answer)) = length

\* the default of get_valid_integer's `length` parameter
DefaultLength == 4

\* The statements as written in the source: the table and column they name,
\* the number of "?" in them, and whether SQLite can parse the text (the four
\* UPDATE statements end in a comma).
Stmt(kind, table, column, placeholders, parses) ==
    [kind |-> kind, table |-> table, column |-> column,
     placeholders |-> placeholders, parses |-> parses]

UpdateQty     == Stmt("update", "book", "qty", 2, FALSE)
UpdateTitle   == Stmt("update", "book", "title", 2, FALSE)
UpdateName    == Stmt("update", "book", "authorID", 2, FALSE)
UpdateCountry == Stmt("update", "author", "country", 2, FALSE)
SelectById    == Stmt("select", "book", "id", 1, TRUE)
SelectByTitle == Stmt("select", "book", "title", 1, TRUE)

\* cursor.execute(statement, parameters): the exception it raises, if any
ExecuteError(stmt, parameters) ==
    IF ~stmt.parses THEN "OperationalError"
    ELSE IF Len(parameters) # stmt.placeholders THEN "ProgrammingError"
    ELSE "none"

\* UPDATE <table> SET <column> = value WHERE id = key, on the two tables
ApplyUpdate(stmt, value, key) ==
    IF stmt.table = "book"
    THEN <<IF key \in DOMAIN book
           THEN [book EXCEPT ![key] =
                    IF stmt.column = "qty" THEN [@ EXCEPT !.qty = value]
                    ELSE IF stmt.column = "title" THEN [@ EXCEPT !.title = value]
                    ELSE [@ EXCEPT !.authorID = value]]
           ELSE book,
           author>>
    ELSE <<book,
           IF key \in DOMAIN author
           THEN [author EXCEPT ![key] = [@ EXCEPT !.country = value]]
           ELSE author>>

\* populate_tables
InitialBooks ==
    (3001 :> [title |-> <<"A", "Tale", "of", "Two", "Cities">>,
              authorID |-> 1290, qty |-> 30])
 @@ (3002 :> [title |-> <<"Harry", "Potter", "and", "the", "Philosopher's", "Stone">>,
              authorID |-> 8937, qty |-> 40])
 @@ (3003 :> [title |-> <<"The", "Lion,", "the", "Witch", "and", "the", "Wardrobe">>,
              authorID |-> 2356, qty |-> 25])
 @@ (3004 :> [title |-> <<"The", "Lord", "of", "the", "Rings">>,
              authorID |-> 6380, qty |-> 37])
 @@ (3005 :> [title |-> <<"Alice's", "Adventures", "in", "Wonderland">>,
              authorID |-> 5620, qty |-> 12])

InitialAuthors ==
    (1290 :> [name |-> <<"Charles", "Dickens">>, country |-> <<"England">>])
 @@ (8937 :> [name |-> <<"J.K.", "Rowling">>, country |-> <<"England">>])
 @@ (2356 :> [name |-> <<"C.S.", "Lewis">>, country |-> <<"Ireland">>])
 @@ (6380 :> [name |-> <<"J.R.R.", "Tolkien">>, country |-> <<"South", "Africa">>])
 @@ (5620 :> [name |-> <<"Lewis", "Carroll">>, country |-> <<"England">>])

\* What a bookstore step read and did: the function run, the outcome, the id
\* and the option entered, the value or pattern entered, the book rows printed.
ShelfStep(op, out, id, choice, value, rows) ==
    [op |-> op, out |-> out, id |-> id, choice |-> choice, value |-> value,
     rows |-> rows]

(***************************************************************************)
(* shelf_track.py: the menu's functions.  An exception that escapes leaves *)
(* the `with` block of the connection, which rolls back, and ends the      *)
(* process.                                                                *)
(***************************************************************************)
\* SELECT b.id, b.title, a.name, a.country FROM book b JOIN author a
\*   ON b.authorID = a.id WHERE b.id = ?   -- fetchone()
JoinRecord(id) ==
    IF id \in DOMAIN book /\ book[id].authorID \in DOMAIN author
    THEN <<[id |-> id, title |-> book[id].title,
            name |-> author[book[id].authorID].name,
            country |-> author[book[id].authorID].country]>>
    ELSE <<>>

\* enter_book, menu choice '1'
EnterBook(idAnswer, title, authorAnswer, qty, name, country) ==
    /\ shelfPc = "menu"
    /\ Accepted(idAnswer, DefaultLength)
    /\ Accepted(authorAnswer, DefaultLength)
    /\ LET id == IntOf(strip(idAnswer))
           authorID == IntOf(strip(authorAnswer))
       IN  IF ~qty.isInt
           THEN /\ shelfPc' = "crashed"
                /\ shelfLast' = ShelfStep("enter_book", "ValueError", id, "", <<>>, {})
                /\ UNCHANGED <<book, author>>
           ELSE /\ shelfPc' = shelfPc
                /\ author' = IF authorID \in DOMAIN author THEN author
                             ELSE author @@ (authorID :> [name |-> name,
                                                          country |-> country])
                /\ book' = IF id \in DOMAIN book THEN book
                           ELSE book @@ (id :> [title |-> title,
                                                authorID |-> authorID,
                                                qty |-> qty.val])
                /\ shelfLast' = ShelfStep("enter_book", "added", id, "", <<>>, {})
    /\ UNCHANGED taskVars

\* The statement update_book sends for an option, with its parameters: the
\* options '3' and '4' pass record[0], the book's id, as the key.
UpdateStatement(choice, id, record, value) ==
    CASE choice = "1" -> [stmt |-> UpdateQty,     value |-> value, key |-> id]
      [] choice = "2" -> [stmt |-> UpdateTitle,   value |-> value, key |-> id]
      [] choice = "3" -> [stmt |-> UpdateName,    value |-> value, key |-> record.id]
      [] choice = "4" -> [stmt |-> UpdateCountry, value |-> value, key |-> record.id]

\* update_book, menu choice '2'.  For option '1' the answer goes through
\* get_valid_integer, for the others it is stripped.
UpdateBook(idAnswer, choice, answer) ==
    /\ shelfPc = "menu"
    /\ Accepted(idAnswer, DefaultLength)
    /\ choice = "1" => Accepted(answer, DefaultLength)
    /\ LET id == IntOf(strip(idAnswer))
           found == JoinRecord(id)
           value == IF choice = "1" THEN IntOf(strip(answer)) ELSE strip(answer)
       IN  IF found = <<>>
           THEN /\ shelfLast' = ShelfStep("update_book", "Book not found.", id, "",
                                          <<>>, {})
                /\ UNCHANGED <<shelfPc, book, author>>
           ELSE IF choice \notin {"1", "2", "3", "4"}
           THEN /\ shelfLast' = ShelfStep("update_book", "Invalid choice.", id,
                                          choice, <<>>, {})
                /\ UNCHANGED <<shelfPc, book, author>>
           ELSE LET u == UpdateStatement(choice, id, found[1], value)
                    err == ExecuteError(u.stmt, <<u.value, u.key>>)
                IN  IF err # "none"
                    THEN /\ shelfPc' = "crashed"
                         /\ shelfLast' = ShelfStep("update_book", err, id, choice,
                                                   value, {})
                         /\ UNCHANGED <<book, author>>
                    ELSE /\ shelfPc' = shelfPc
                         /\ book' = ApplyUpdate(u.stmt, u.value, u.key)[1]
                         /\ author' = ApplyUpdate(u.stmt, u.value, u.key)[2]
                         /\ shelfLast' = ShelfStep("update_book",
                                                   "Book updated successfully!",
                                                   id, choice, value, {})
    /\ UNCHANGED taskVars

\* a row count that is 1 whether or not a row matched
RowCountAlwaysOne(id) == 1

\* cursor.rowcount after DELETE FROM book WHERE id = ?
RowCount(id) == IF id \in DOMAIN book THEN 1 ELSE 0

\* delete_book, menu choice '3'
DeleteBook(idAnswer) ==
    /\ shelfPc = "menu"
    /\ Accepted(idAnswer, DefaultLength)
    /\ LET id == IntOf(strip(idAnswer))
           rowcount == RowCount(id)
       IN  /\ book' = [b \in DOMAIN book \ {id} |-> book[b]]
           /\ shelfLast' = ShelfStep("delete_book",
                                     IF rowcount = 0 THEN "No book found with that ID."
                                     ELSE "Book deleted successfully.",
                                     id, "", <<>>, {})
    /\ UNCHANGED <<shelfPc, author, taskVars>>

\* The parameters search_book passes to cursor.execute: none.  The tuple with
\* the id (or the pattern) is written after the call's closing parenthesis.
SearchParameters(bindings) == <<>>

\* search_book, menu choice '4'; the rows a statement that ran would return
\* are those of SearchRows
Contains(title, part) ==
    \E i \in 0..(Len(title) - Len(part)) :
        SubSeq(title, i + 1, i + Len(part)) = part

SearchRows(stmt, bindings) ==
    IF stmt.column = "id"
    THEN {b \in DOMAIN book : b = bindings[1]}
    ELSE {b \in DOMAIN book : Contains(book[b].title, bindings[1])}

SearchBook(choice, idAnswer, title) ==
    /\ shelfPc = "menu"
    /\ choice = "1" => Accepted(idAnswer, DefaultLength)
    /\ IF choice \notin {"1", "2"}
       THEN /\ shelfLast' = ShelfStep("search_book", "Invalid choice.", 0, choice,
                                      <<>>, {})
            /\ UNCHANGED shelfPc
       ELSE LET id == IF choice = "1" THEN IntOf(strip(idAnswer)) ELSE 0
                pattern == IF choice = "1" THEN <<>> ELSE strip(title)
                stmt == IF choice = "1" THEN SelectById ELSE SelectByTitle
                bindings == IF choice = "1" THEN <<id>> ELSE <<pattern>>
                err == ExecuteError(stmt, SearchParameters(bindings))
            IN  IF err # "none"
                THEN /\ shelfPc' = "crashed"
                     /\ shelfLast' = ShelfStep("search_book", err, id, choice,
                                               pattern, {})
                ELSE LET rows == SearchRows(stmt, bindings)
                     IN  /\ shelfPc' = shelfPc
                         /\ shelfLast' = ShelfStep("search_book",
                                IF rows # {} THEN "Found books:"
                                ELSE "No matching books found.",
                                id, choice, pattern, rows)
    /\ UNCHANGED <<book, author, taskVars>>

\* view_book_details, menu choice '5'
ViewBookDetails ==
    /\ shelfPc = "menu"
    /\ shelfLast' = ShelfStep("view_book_details",
                              IF \E b \in DOMAIN book : JoinRecord(b) # <<>>
                              THEN "Details" ELSE "", 0, "", <<>>, {})
    /\ UNCHANGED <<shelfPc, book, author, taskVars>>

\* menu choice '0'
ShelfExit ==
    /\ shelfPc = "menu"
    /\ shelfPc' = "exit"
    /\ shelfLast' = ShelfStep("exit", "Goodbye!", 0, "", <<>>, {})
    /\ UNCHANGED <<book, author, taskVars>>

(***************************************************************************)
(* The answers typed at the bookstore's prompts                            *)
(***************************************************************************)
IdAnswers == { <<"3", "0", "0", "2">>, <<"3", "0", "0", "4">>,
               <<" ", "3", "0", "0", "6">>, <<"3", "0", "2">>, <<"x">> }
AuthorAnswers == { <<"6", "3", "8", "0">>, <<"0", "0", "7", "7">> }
Quantities == { [isInt |-> TRUE, val |-> 5], [isInt |-> FALSE, val |-> 0] }
Options == {"1", "2", "3", "4", "9"}
SearchTitles == { <<"Lord">>, <<"Dune">> }

\* the answer typed for the new value under each update option
UpdateAnswer(choice) ==
    CASE choice = "1" -> <<"1", "0", "0", "0">>
      [] choice = "2" -> <<"The", "Hobbit", " ">>
      [] choice = "3" -> <<"Tolkien">>
      [] OTHER        -> <<"Wales">>

ShelfNext ==
    \/ \E i \in IdAnswers, a \in AuthorAnswers, q \in Quantities :
          EnterBook(i, <<"Lord", "Jim">>, a, q, <<"Joseph", "Conrad">>, <<"Poland">>)
    \/ \E i \in IdAnswers, c \in Options : UpdateBook(i, c, UpdateAnswer(c))
    \/ \E i \in IdAnswers : DeleteBook(i)
    \/ \E c \in Options, i \in IdAnswers, t \in SearchTitles : SearchBook(c, i, t)
    \/ ViewBookDetails
    \/ ShelfExit

ShelfInit ==
    /\ shelfPc = "menu"
    /\ book = InitialBooks
    /\ author = InitialAuthors
    /\ shelfLast = ShelfStep("start", "", 0, "", <<>>, {})

Init == TaskInit /\ ShelfInit

Spec == Init /\ [][Next]_vars

\* user.txt already holds the standard user bob
InitWithBob == Init /\ userFile # DefaultUserFile

EditSpec == InitWithBob /\ [][EditNext]_vars

ReportSpec == InitWithBob /\ [][ReportNext]_vars

ShelfSpec == InitWithBob /\ [][ShelfNext]_vars

(***************************************************************************)
(* Properties of view_mine and add_task, checked under EditSpec            *)
(***************************************************************************)
\* The task a view_mine step selected, as loaded before the step.
SelectedBefore == LoadTasks(tasksFile)[last'.idx]

EditChosen == last'.op = "vm" /\ last'.act = "e" /\ last'.idx > 0

\* C1: when view_mine's edit action is chosen for a task whose completed flag
\* is Yes, tasks.txt is the same after the step as before it.
C1_EditOfCompletedTaskWritesNothing ==
    [][ (EditChosen /\ SelectedBefore[6] = Yes) => tasksFile' = tasksFile ]_vars

\* C1 witness: an edit was attempted on a completed task and refused.
C1_Witness ==
    /\ last.op = "vm" /\ last.act = "e" /\ last.idx > 0
    /\ last.out = "already complete"
    /\ LoadTasks(tasksFile)[last.idx][6] = Yes

\* C2: an edit of an incomplete task leaves tasks.txt unchanged when the new
\* owner is unknown or the new due date is no calendar date; when both are
\* valid, the loaded tasks afterwards are those before with the owner and the
\* due date of the selected task replaced, and nothing else.
C2_EditIsAllOrNothing ==
    [][ (EditChosen /\ SelectedBefore[6] # Yes) =>
          IF last'.a \in DOMAIN username_password /\ strptime(last'.b).ok
          THEN LoadTasks(tasksFile') =
                  [LoadTasks(tasksFile) EXCEPT ![last'.idx][1] = last'.a,
                                               ![last'.idx][4] = last'.b]
          ELSE tasksFile' = tasksFile ]_vars

\* C2 witness: an edit with a known new owner and a date that is no calendar
\* date (30 February) was attempted on an incomplete task.
C2_Witness ==
    /\ last.op = "vm" /\ last.act = "e" /\ last.idx > 0
    /\ last.a \in DOMAIN username_password
    /\ last.b = W("2023-02-30")
    /\ LoadTasks(tasksFile)[last.idx][6] # Yes
    /\ LoadTasks(tasksFile)[last.idx][1] = username

\* C3: add_task leaves tasks.txt unchanged for an assignee who is no key of
\* the user mapping; for a known assignee it appends exactly one line after
\* the existing ones, a record whose first field is the assignee and whose
\* final field is No, and the records loaded before are loaded unchanged, in
\* the same positions.
C3_AddTaskAppendsIffKnown ==
    [][ last'.op = "a" =>
          IF last'.a \notin DOMAIN username_password
          THEN tasksFile' = tasksFile
          ELSE LET old == LoadTasks(tasksFile)
                   new == LoadTasks(tasksFile')
                   rec == new[Len(new)]
               IN  /\ Len(readlines(tasksFile')) = Len(readlines(tasksFile)) + 1
                   /\ SubSeq(tasksFile', 1, Len(tasksFile)) = tasksFile
                   /\ Len(new) = Len(old) + 1
                   /\ SubSeq(new, 1, Len(old)) = old
                   /\ rec[1] = last'.a
                   /\ rec[Len(rec)] = No ]_vars

\* C3 witness: a task was added for a known user to a file that held one.
C3_Witness ==
    /\ last.op = "a" /\ last.out = "added"
    /\ last.a \in DOMAIN username_password
    /\ Len(LoadTasks(tasksFile)) >= 2

\* C8: a list of task records written in view_mine's format and loaded again
\* is the same list; stated of the one-record list of each task add_task
\* has just built.
C8_RoundTrip ==
    (last.op = "a" /\ last.out = "added") =>
        LoadTasks(WriteTasks(<<last.rec>>)) = <<last.rec>>

(***************************************************************************)
(* Properties of generate_reports, checked under ReportSpec                *)
(***************************************************************************)
\* the due date lies on a calendar day before today's
DueBeforeToday(t) ==
    LET due == strptime(t[4])
    IN  \/ due.y < Today.y
        \/ due.y = Today.y /\ due.m < Today.m
        \/ due.y = Today.y /\ due.m = Today.m /\ due.d < Today.d

ReportJustWritten == last.op \in {"gr", "ds"} /\ last.out = "written"

\* C4: the overdue figure generate_reports writes is the number of tasks that
\* are incomplete and due on a day strictly before today; a task due today
\* or later, or a completed one, is not counted.
C4_OverdueIsIncompleteAndDueBeforeToday ==
    ReportJustWritten =>
        LET tasks == LoadTasks(tasksFile)
        IN  taskOverview.overdue =
                Cardinality({i \in 1..Len(tasks) :
                                tasks[i][6] = No /\ DueBeforeToday(tasks[i])})

\* C5: in every report written, completed + incomplete = total and
\* overdue <= incomplete, in the task overview and in each user's block of
\* the user overview.
C5_ReportTotalsConsistent ==
    /\ taskOverview.written =>
          /\ taskOverview.completed + taskOverview.incomplete = taskOverview.total
          /\ taskOverview.overdue <= taskOverview.incomplete
    /\ userOverview.written =>
          \A u \in DOMAIN userOverview.per :
              LET b == userOverview.per[u]
              IN  b.detail => /\ b.completed + b.incomplete = b.total
                              /\ b.overdue <= b.incomplete

\* C5 witness: a report over two tasks, one completed and past its due date,
\* one overdue, with a block for a user who has tasks.
C5_Witness ==
    /\ ReportJustWritten
    /\ taskOverview.total = 2
    /\ taskOverview.completed = 1
    /\ taskOverview.overdue = 1
    /\ \E i \in 1..Len(LoadTasks(tasksFile)) :
          LET t == LoadTasks(tasksFile)[i] IN t[6] = Yes /\ DueBeforeToday(t)
    /\ \E u \in DOMAIN userOverview.per : userOverview.per[u].detail

(***************************************************************************)
(* Properties of the session, checked under Spec                           *)
(***************************************************************************)
\* C6: the session leaves the login loop only on an attempt whose name is in
\* the mapping with the password entered; a failed attempt stays at the
\* login prompt; from the menu on the user never changes and the login
\* prompt is never reached again; the menu loop is left only by the exit
\* choice.
C6_SessionStateMachine ==
    [][ /\ (pc = "login" /\ pc' # "login") =>
              /\ pc' = "menu"
              /\ last'.a \in DOMAIN username_password
              /\ username_password[last'.a] = last'.b
              /\ username' = last'.a
        /\ (pc = "login" /\ last'.op = "login"
              /\ ~(last'.a \in DOMAIN username_password
                     /\ username_password[last'.a] = last'.b)) => pc' = "login"
        /\ pc # "login" => (username' = username /\ pc' # "login")
        /\ (pc = "menu" /\ pc' # "menu") => (pc' = "exit" /\ last'.op = "e")
      ]_vars

AdminOnly == {"r", "gr", "ds"}

\* C7: while the user logged in is not admin, a step that answers the menu
\* with r, gr or ds changes neither the user mapping nor user.txt, tasks.txt
\* or the two report files.
C7_AdminOnlyChoicesAreNoOps ==
    [][ (pc = "menu" /\ username # Admin /\ last'.op \in AdminOnly) =>
          UNCHANGED <<username_password, userFile, tasksFile,
                      taskOverview, userOverview>> ]_vars

\* C7 witness: a standard user answered the menu with gr and is still in it.
C7_Witness ==
    /\ pc = "menu" /\ username # Admin /\ username \in DOMAIN username_password
    /\ last.op = "gr" /\ last.out = "invalid"

(***************************************************************************)
(* Properties of the bookstore, checked under ShelfSpec                    *)
(***************************************************************************)
\* C9: a search by id prints exactly the books with that id, a search by
\* title exactly the books whose title contains the text entered, and "not
\* found" exactly when there are none; on the seed data id 3002 gives the
\* Harry Potter row and "Lord" the Tolkien row.
C9_SearchReturnsMatchingRows ==
    (shelfLast.op = "search_book" /\ shelfLast.choice \in {"1", "2"}) =>
        LET expected ==
                IF shelfLast.choice = "1"
                THEN {b \in DOMAIN book : b = shelfLast.id}
                ELSE {b \in DOMAIN book : Contains(book[b].title, shelfLast.value)}
        IN  /\ shelfLast.out \in {"Found books:", "No matching books found."}
            /\ shelfLast.rows = expected
            /\ shelfLast.out = "No matching books found." <=> expected = {}
            /\ (book = InitialBooks /\ shelfLast.choice = "1" /\ shelfLast.id = 3002)
                  => shelfLast.rows = {3002}
            /\ (book = InitialBooks /\ shelfLast.choice = "2"
                  /\ shelfLast.value = <<"Lord">>) => shelfLast.rows = {3004}

\* C10: update_book on the id of an existing book with option 1 to 4 returns
\* to the menu having set the book's quantity (1), the book's title (2), the
\* name (3) or the country (4) of the book's author to the value entered,
\* all other attributes of books and authors unchanged.
C10_UpdateSetsSelectedAttribute ==
    [][ (shelfLast'.op = "update_book" /\ JoinRecord(shelfLast'.id) # <<>>
           /\ shelfLast'.choice \in {"1", "2", "3", "4"}) =>
          LET id == shelfLast'.id
              a  == book[id].authorID
              v  == shelfLast'.value
          IN  /\ shelfPc' = "menu"
              /\ shelfLast'.choice = "1" =>
                    book' = [book EXCEPT ![id].qty = v] /\ author' = author
              /\ shelfLast'.choice = "2" =>
                    book' = [book EXCEPT ![id].title = v] /\ author' = author
              /\ shelfLast'.choice = "3" =>
                    author' = [author EXCEPT ![a].name = v] /\ book' = book
              /\ shelfLast'.choice = "4" =>
                    author' = [author EXCEPT ![a].country = v] /\ book' = book
      ]_vars


\* C11: delete_book on an id that is not in the book table prints "not found"
\* and leaves both tables as they were, so that the id is still absent and a
\* second call does the same; it prints success only when the id was in the
\* table, and then exactly that row is gone.
C11_DeleteOfMissingBookIsNoOp ==
    [][ shelfLast'.op = "delete_book" =>
          IF shelfLast'.id \notin DOMAIN book
          THEN /\ shelfLast'.out = "No book found with that ID."
               /\ book' = book /\ author' = author
               /\ shelfLast'.id \notin DOMAIN book'
          ELSE /\ shelfLast'.out = "Book deleted successfully."
               /\ DOMAIN book' = DOMAIN book \ {shelfLast'.id}
               /\ \A b \in DOMAIN book' : book'[b] = book[b]
               /\ author' = author ]_vars

\* C11 witness: delete_book was called again for a seed book already deleted.
C11_Witness ==
    /\ shelfLast.op = "delete_book"
    /\ shelfLast.out = "No book found with that ID."
    /\ shelfLast.id \in DOMAIN InitialBooks
    /\ shelfLast.id \notin DOMAIN book


(***************************************************************************)
(* The due dates add_task stores, checked under Spec                       *)
(***************************************************************************)
\* C12: every task record stored has a due date that is a valid YYYY-MM-DD
\* calendar date, and a run of generate_reports ends with the reports
\* written, never with an exception.
C12_StoredDueDatesParse ==
    /\ \A i \in 1..Len(LoadTasks(tasksFile)) :
          LET t == LoadTasks(tasksFile)[i]
          IN  Len(t) >= 6 /\ strptime(t[4]).ok
    /\ last.op \in {"gr", "ds"} => last.out = "written"


(***************************************************************************)
(* The frame of view_mine, checked under EditSpec                          *)
(***************************************************************************)
\* the records of the old task list that differ in the new one
ChangedRecords(old, new) ==
    {i \in 1..Len(old) : i > Len(new) \/ new[i] # old[i]}

\* C13: a run of view_mine by the user logged in keeps the number and order
\* of the task records and changes at most one of them; a changed record
\* was owned by that user and is the k-th of that user's records in file
\* order, k being the number typed; and no step of the program turns a
\* completed flag from Yes back to No.  A step that leaves the file as it
\* was changes no record, so the records are compared when the file differs.
C13_ViewMineChangesOnlyTheSelectedOwnTask ==
    [][ tasksFile' # tasksFile =>
        LET old == LoadTasks(tasksFile)
            new == LoadTasks(tasksFile')
        IN  /\ last'.op = "vm" =>
                  /\ Len(new) = Len(old)
                  /\ Cardinality(ChangedRecords(old, new)) <= 1
                  /\ \A i \in ChangedRecords(old, new) :
                        /\ old[i][1] = username
                        /\ i = last'.idx
                        /\ Cardinality({j \in 1..i : old[j][1] = username})
                              = last'.rec[1]
            /\ \A i \in 1..Len(old) :
                  (Len(old[i]) >= 6 /\ old[i][6] = Yes) =>
                      (i <= Len(new) /\ Len(new[i]) >= 6 /\ new[i][6] = Yes)
      ]_vars

\* C13 witness: the user's first task is the second record of the file, the
\* first record being another user's, and view_mine has just updated it.
C13_Witness ==
    /\ last.op = "vm" /\ last.out = "updated"
    /\ last.idx = 2 /\ last.rec = <<1>>
    /\ Len(LoadTasks(tasksFile)) = 2
    /\ LoadTasks(tasksFile)[1][1] # username

====
